---- MODULE Spec2Model ----
(***************************************************************************)
(* Model of the ego-graph statistics program (DS210Project2).              *)
(*                                                                         *)
(* load_edges reads an edge-list file line by line into an undirected      *)
(* petgraph Graph; main then computes the degree distribution and the      *)
(* mean, standard deviation and median of the shortest-path separations.   *)
(*                                                                         *)
(* A line is a sequence of one-character strings.  A petgraph              *)
(* Graph<(), (), Undirected> is its node count (indices 0..node_count-1)   *)
(* and the sequence of its edge entries <<source, target>> in insertion    *)
(* order.  An f64 result is an exact reduced fraction <<num, den>>; the    *)
(* integers involved are far below 2^53, so sums and comparisons with      *)
(* integers are exact in the program as well.  The one irrational          *)
(* operation, sqrt, is carried in hundredths (the precision main prints).  *)
(***************************************************************************)
EXTENDS Integers, Sequences, FiniteSets, TLC

\* ------------------------------------------------------------------ bounds
MaxLineLen == 6     \* longest input line, in characters
MaxNameChars == 13  \* most characters in the names of the two-token lines of a file

\* ------------------------------------------------------------------ inputs
Chars == {"1", " "}
Lines == UNION {[1..n -> Chars] : n \in 0..MaxLineLen}

VARIABLES
    pc,                  \* position in main / load_edges
    node_map,            \* load_edges: HashMap name -> NodeIndex
    node_count,          \* graph: number of nodes
    edges,               \* graph: edge entries <<u, v>> in insertion order
    degree_distribution, \* main: result of calculate_degree_distribution
    total_distance,      \* calculate_mean_separation: local accumulator
    pair_count,          \* calculate_mean_separation: local counter
    mean_separation,     \* main: result of calculate_mean_separation
    distances,           \* the Vec collected by the last std-dev / median call
    std_dev_separation,  \* main: result, in hundredths
    median_separation,   \* main: result of calculate_median_separation
    median_branch,       \* which return of calculate_median_separation ran
    pairs                \* history: token pairs of the two-token lines read

vars == <<pc, node_map, node_count, edges, degree_distribution, total_distance,
          pair_count, mean_separation, distances, std_dev_separation,
          median_separation, median_branch, pairs>>

\* ------------------------------------------------------------ line parsing
IsWhitespace(c) == c \in {" ", "\t"}

RECURSIVE Scan(_, _, _, _)
\* str::split_whitespace, left to right: cur is the token being read and
\* out the tokens already finished; empty tokens are never produced.
Scan(line, i, cur, out) ==
    IF i > Len(line)
    THEN IF cur = <<>> THEN out ELSE Append(out, cur)
    ELSE IF IsWhitespace(line[i])
         THEN Scan(line, i + 1, <<>>, IF cur = <<>> THEN out ELSE Append(out, cur))
         ELSE Scan(line, i + 1, Append(cur, line[i]), out)

split_whitespace(line) == Scan(line, 1, <<>>, <<>>)

\* ------------------------------------------------------------- load_edges
EmptyMap == [x \in {} |-> 0]

\* node_map.entry(name).or_insert_with(|| graph.add_node(())) on the loader
\* state st = [node_map, node_count, edges]
entry_or_insert(st, name) ==
    IF name \in DOMAIN st.node_map
    THEN st
    ELSE [st EXCEPT !.node_map = (name :> st.node_count) @@ st.node_map,
                    !.node_count = @ + 1]

\* a mutant: the second token is looked up before the first
load_tokens_second_first(st, nodes) ==
    IF Len(nodes) = 2
    THEN LET s1 == entry_or_insert(st, nodes[2])
             s2 == entry_or_insert(s1, nodes[1])
         IN [s2 EXCEPT !.edges = Append(@, <<s2.node_map[nodes[1]], s2.node_map[nodes[2]]>>)]
    ELSE st

\* a mutant: a line of two or more tokens is accepted
load_tokens_at_least_two(st, nodes) ==
    IF Len(nodes) >= 2
    THEN LET s1 == entry_or_insert(st, nodes[1])
             s2 == entry_or_insert(s1, nodes[2])
         IN [s2 EXCEPT !.edges = Append(@, <<s1.node_map[nodes[1]], s2.node_map[nodes[2]]>>)]
    ELSE st

\* a mutant: a line whose two tokens are equal is skipped
load_tokens_distinct_only(st, nodes) ==
    IF Len(nodes) = 2 /\ nodes[1] # nodes[2]
    THEN LET s1 == entry_or_insert(st, nodes[1])
             s2 == entry_or_insert(s1, nodes[2])
         IN [s2 EXCEPT !.edges = Append(@, <<s1.node_map[nodes[1]], s2.node_map[nodes[2]]>>)]
    ELSE st

\* the body of load_edges' loop, given the tokens of the line
load_tokens(st, nodes) ==
    IF Len(nodes) = 2
    THEN LET s1 == entry_or_insert(st, nodes[1])
             u  == s1.node_map[nodes[1]]
             s2 == entry_or_insert(s1, nodes[2])
             v  == s2.node_map[nodes[2]]
         IN [s2 EXCEPT !.edges = Append(@, <<u, v>>)]
    ELSE st

\* the body of load_edges' loop for one line
load_line(st, line) == load_tokens(st, split_whitespace(line))

RECURSIVE load_from(_, _, _)
load_from(st, file, i) ==
    IF i > Len(file) THEN st ELSE load_from(load_line(st, file[i]), file, i + 1)

\* load_edges on a whole file (a sequence of lines)
load_edges(file) ==
    load_from([node_map |-> EmptyMap, node_count |-> 0, edges |-> <<>>], file, 1)

\* ------------------------------------------------------- petgraph graph
Nodes(n) == 0..(n - 1)

\* a mutant: only the edges leaving a are followed (a directed graph)
neighbors_outgoing_only(E, a) ==
    [i \in 1..Len(SelectSeq(E, LAMBDA e : e[1] = a)) |->
        SelectSeq(E, LAMBDA e : e[1] = a)[i][2]]

\* graph.neighbors(a) of an undirected graph: the targets of the entries
\* leaving a, then the sources of the entries arriving at a, a self-loop
\* being skipped in the second list.
neighbors(E, a) ==
    LET out == SelectSeq(E, LAMBDA e : e[1] = a)
        inc == SelectSeq(E, LAMBDA e : e[2] = a /\ e[1] # a)
    IN [i \in 1..Len(out) |-> out[i][2]] \o [i \in 1..Len(inc) |-> inc[i][1]]

Range(s) == {s[i] : i \in 1..Len(s)}

RECURSIVE dijkstra_loop(_, _, _, _)
\* The uniform-cost traversal: with every edge cost 1 the heap pops the
\* nodes in layers; frontier is the layer settled at cost d, scores the
\* map node -> cost built so far.
dijkstra_loop(E, scores, frontier, d) ==
    IF frontier = {}
    THEN scores
    ELSE LET next == {t \in UNION {Range(neighbors(E, a)) : a \in frontier} :
                         t \notin DOMAIN scores}
         IN dijkstra_loop(E, [t \in next |-> d + 1] @@ scores, next, d + 1)

\* dijkstra(graph, start, None, |_| 1): the map reached node -> cost
dijkstra(E, start) == dijkstra_loop(E, (start :> 0), {start}, 0)

RECURSIVE values_from(_, _, _)
\* the map's values, listed by ascending key: the HashMap's own order is
\* unspecified, and every use below (sum, count, sort) is order-insensitive
values_from(m, k, n) ==
    IF k >= n THEN <<>>
    ELSE (IF k \in DOMAIN m THEN <<m[k]>> ELSE <<>>) \o values_from(m, k + 1, n)

values(m, n) == values_from(m, 0, n)

RECURSIVE SumSeq(_)
SumSeq(s) == IF s = <<>> THEN 0 ELSE Head(s) + SumSeq(Tail(s))

\* ------------------------------------------------------------ f64 values
RECURSIVE GCD(_, _)
GCD(a, b) == IF b = 0 THEN a ELSE GCD(b, a % b)

Rat(n, d) == LET g == GCD(n, d) IN <<n \div g, d \div g>>
Zero == Rat(0, 1)
NaN == <<0, 0>>

\* a / b on f64: 0.0 / 0.0 is NaN, written 0/0
FDiv(a, b) == IF b = 0 THEN NaN ELSE Rat(a, b)

RECURSIVE Newton(_, _)
\* the integer square root of x > 0, descending from a guess r >= root
Newton(x, r) ==
    LET next == (r + x \div r) \div 2
    IN IF next >= r THEN r ELSE Newton(x, next)

\* f64::sqrt of the fraction v, in hundredths, rounded down
Sqrt(v) ==
    LET x == (10000 * v[1]) \div v[2]
    IN IF x = 0 THEN 0 ELSE Newton(x, x)

\* -------------------------------------------- calculate_degree_distribution
RECURSIVE degree_loop(_, _, _, _)
degree_loop(E, n, node, degree_counts) ==
    IF node >= n THEN degree_counts
    ELSE LET degree == Len(neighbors(E, node))
             old == IF degree \in DOMAIN degree_counts THEN degree_counts[degree] ELSE 0
         IN degree_loop(E, n, node + 1, (degree :> old + 1) @@ degree_counts)

\* a mutant: parallel edges are collapsed, the degree is the number of
\* distinct neighbours
degree_distribution_dedup(E, n) ==
    [d \in {Cardinality(Range(neighbors(E, x))) : x \in Nodes(n)} |->
        Cardinality({x \in Nodes(n) : Cardinality(Range(neighbors(E, x))) = d})]

calculate_degree_distribution(E, n) == degree_loop(E, n, 0, EmptyMap)

\* ------------------------------------------------ calculate_mean_separation
RECURSIVE mean_loop(_, _, _, _)
\* the loop over start nodes: acc = <<total_distance, pair_count>>
mean_loop(E, n, start_node, acc) ==
    IF start_node >= n THEN acc
    ELSE LET kept == SelectSeq(values(dijkstra(E, start_node), n), LAMBDA d : d > 0)
         IN mean_loop(E, n, start_node + 1, <<acc[1] + SumSeq(kept), acc[2] + Len(kept)>>)

RECURSIVE mean_loop_with_self(_, _, _, _)
mean_loop_with_self(E, n, start_node, acc) ==
    IF start_node >= n THEN acc
    ELSE LET kept == values(dijkstra(E, start_node), n)
         IN mean_loop_with_self(E, n, start_node + 1,
                                <<acc[1] + SumSeq(kept), acc[2] + Len(kept)>>)

\* a mutant: the distance 0 of a node to itself is counted as a pair
mean_totals_with_self(E, n) == mean_loop_with_self(E, n, 0, <<0, 0>>)

\* <<total_distance, pair_count>> after the loop
mean_totals(E, n) == mean_loop(E, n, 0, <<0, 0>>)

\* a mutant: the pair_count == 0 guard is missing
mean_of_totals_unguarded(acc) == FDiv(acc[1], acc[2])

mean_of_totals(acc) == IF acc[2] = 0 THEN Zero ELSE FDiv(acc[1], acc[2])

calculate_mean_separation(E, n) == mean_of_totals(mean_totals(E, n))

\* ------------------------------------------- the Vec of collected distances
RECURSIVE collect_loop(_, _, _)
collect_loop(E, n, start_node) ==
    IF start_node >= n THEN <<>>
    ELSE SelectSeq(values(dijkstra(E, start_node), n), LAMBDA d : d > 0)
         \o collect_loop(E, n, start_node + 1)

RECURSIVE collect_loop_with_self(_, _, _)
collect_loop_with_self(E, n, start_node) ==
    IF start_node >= n THEN <<>>
    ELSE values(dijkstra(E, start_node), n) \o collect_loop_with_self(E, n, start_node + 1)

\* a mutant: the distance > 0 filter is missing
collect_distances_with_self(E, n) == collect_loop_with_self(E, n, 0)

\* the collection loop shared, textually, by the std-dev and median functions
collect_distances(E, n) == collect_loop(E, n, 0)

\* ---------------------------------- calculate_standard_deviation_separation
\* sum of (distance - mean)^2 with mean = s / c, as a fraction over c^2
SquaredDeviations(ds) ==
    LET c == Len(ds)
        s == SumSeq(ds)
    IN SumSeq([i \in 1..c |-> (c * ds[i] - s) * (c * ds[i] - s)])

\* a mutant: the sample variance (count - 1) instead of the population one
std_dev_sample_variance(ds) ==
    IF ds = <<>> THEN 0
    ELSE Sqrt(Rat(SquaredDeviations(ds), Len(ds) * Len(ds) * (Len(ds) - 1)))

std_dev_of(ds) ==
    IF ds = <<>> THEN 0
    ELSE Sqrt(Rat(SquaredDeviations(ds), Len(ds) * Len(ds) * Len(ds)))

calculate_standard_deviation_separation(E, n) == std_dev_of(collect_distances(E, n))

\* ---------------------------------------------- calculate_median_separation
RECURSIVE Insert(_, _)
Insert(sorted, x) ==
    IF sorted = <<>> THEN <<x>>
    ELSE IF x < Head(sorted) THEN <<x>> \o sorted
         ELSE <<Head(sorted)>> \o Insert(Tail(sorted), x)

RECURSIVE sort_from(_, _, _)
sort_from(ds, i, sorted) ==
    IF i > Len(ds) THEN sorted ELSE sort_from(ds, i + 1, Insert(sorted, ds[i]))

\* distances.sort_by(|a, b| a.partial_cmp(b).unwrap()): ascending, stable
sort_by(ds) == sort_from(ds, 1, <<>>)

\* distances[i] with Rust's 0-based index
Index(ds, i) == ds[i + 1]

\* a mutant: the two elements after the middle are averaged
median_of_off_by_one(ds) ==
    IF ds = <<>> THEN Zero
    ELSE LET sorted == sort_by(ds)
             mid == Len(sorted) \div 2
         IN IF Len(sorted) % 2 = 0
            THEN IF mid + 1 < Len(sorted)
                 THEN Rat(Index(sorted, mid) + Index(sorted, mid + 1), 2)
                 ELSE NaN
            ELSE Rat(Index(sorted, mid), 1)

\* the part of calculate_median_separation after the collection loop
median_of(ds) ==
    IF ds = <<>> THEN Zero
    ELSE LET sorted == sort_by(ds)
             mid == Len(sorted) \div 2
         IN IF Len(sorted) % 2 = 0
            THEN Rat(Index(sorted, mid - 1) + Index(sorted, mid), 2)
            ELSE Rat(Index(sorted, mid), 1)

\* which of the three returns is taken
median_branch_of(ds) ==
    IF ds = <<>> THEN "empty" ELSE IF Len(ds) % 2 = 0 THEN "even" ELSE "odd"

calculate_median_separation(E, n) == median_of(collect_distances(E, n))

\* --------------------------------------------- history of the input read
\* The maximal runs of non-whitespace characters of a line, as index pairs.
Runs(line) ==
    {r \in (1..Len(line)) \X (1..Len(line)) :
        /\ r[1] <= r[2]
        /\ \A k \in r[1]..r[2] : line[k] # " "
        /\ (r[1] = 1 \/ line[r[1] - 1] = " ")
        /\ (r[2] = Len(line) \/ line[r[2] + 1] = " ")}

TokenCount(line) == Cardinality(Runs(line))

\* For a line of exactly two runs: the two tokens, leftmost first.
TokenPair(line) ==
    LET rs == Runs(line)
        a == CHOOSE r \in rs : \A q \in rs : r[1] <= q[1]
        b == CHOOSE r \in rs : r # a
    IN <<SubSeq(line, a[1], a[2]), SubSeq(line, b[1], b[2])>>

\* What reading a line hands on: to the loop body its tokens, to the
\* history its token count and, for two tokens, the pair.  Lines that
\* agree in all three are one input.
Inputs ==
    {[nodes |-> split_whitespace(line),
      count |-> TokenCount(line),
      pair  |-> IF TokenCount(line) = 2 THEN TokenPair(line) ELSE <<<<>>, <<>>>>] :
        line \in Lines}

\* the characters in the names of the two-token lines read so far
NameChars(ps) == SumSeq([i \in 1..Len(ps) |-> Len(ps[i][1]) + Len(ps[i][2])])

\* ---------------------------------------------------------------- actions
None == "none"

Init ==
    /\ pc = "load"
    /\ node_map = EmptyMap
    /\ node_count = 0
    /\ edges = <<>>
    /\ degree_distribution = None
    /\ total_distance = None
    /\ pair_count = None
    /\ mean_separation = None
    /\ distances = None
    /\ std_dev_separation = None
    /\ median_separation = None
    /\ median_branch = None
    /\ pairs = <<>>

\* load_edges: one iteration of the loop over the file's lines
ReadLine ==
    /\ pc = "load"
    /\ \E in \in Inputs :
          /\ NameChars(pairs) + Len(in.pair[1]) + Len(in.pair[2]) <= MaxNameChars
          /\ LET st == load_tokens([node_map |-> node_map, node_count |-> node_count,
                                    edges |-> edges], in.nodes)
             IN /\ node_map' = st.node_map
                /\ node_count' = st.node_count
                /\ edges' = st.edges
                /\ pairs' = IF in.count = 2 THEN Append(pairs, in.pair) ELSE pairs
    /\ UNCHANGED <<pc, degree_distribution, total_distance, pair_count,
                   mean_separation, distances, std_dev_separation,
                   median_separation, median_branch>>

\* load_edges: end of file; the graph is returned and node_map dropped
EndOfFile ==
    /\ pc = "load"
    /\ pc' = "loaded"
    /\ node_map' = EmptyMap
    /\ UNCHANGED <<node_count, edges, degree_distribution, total_distance,
                   pair_count, mean_separation, distances, std_dev_separation,
                   median_separation, median_branch, pairs>>

\* main: let degree_distribution = calculate_degree_distribution(&graph)
DegreeDistribution ==
    /\ pc = "loaded"
    /\ pc' = "degree"
    /\ degree_distribution' = calculate_degree_distribution(edges, node_count)
    /\ UNCHANGED <<node_map, node_count, edges, total_distance, pair_count,
                   mean_separation, distances, std_dev_separation,
                   median_separation, median_branch, pairs>>

\* main: let mean_separation = calculate_mean_separation(&graph)
MeanSeparation ==
    /\ pc = "degree"
    /\ pc' = "mean"
    /\ LET acc == mean_totals(edges, node_count)
       IN /\ total_distance' = acc[1]
          /\ pair_count' = acc[2]
          /\ mean_separation' = mean_of_totals(acc)
    /\ UNCHANGED <<node_map, node_count, edges, degree_distribution, distances,
                   std_dev_separation, median_separation, median_branch, pairs>>

\* main: let std_dev_separation = calculate_standard_deviation_separation(&graph)
StdDevSeparation ==
    /\ pc = "mean"
    /\ pc' = "std"
    /\ distances' = collect_distances(edges, node_count)
    /\ std_dev_separation' = std_dev_of(distances')
    /\ UNCHANGED <<node_map, node_count, edges, degree_distribution,
                   total_distance, pair_count, mean_separation,
                   median_separation, median_branch, pairs>>

\* main: let median_separation = calculate_median_separation(&graph)
MedianSeparation ==
    /\ pc = "std"
    /\ pc' = "done"
    /\ LET ds == collect_distances(edges, node_count)
       IN /\ distances' = (IF ds = <<>> THEN ds ELSE sort_by(ds))
          /\ median_separation' = median_of(ds)
          /\ median_branch' = median_branch_of(ds)
    /\ UNCHANGED <<node_map, node_count, edges, degree_distribution,
                   total_distance, pair_count, mean_separation,
                   std_dev_separation, pairs>>

Next ==
    \/ ReadLine
    \/ EndOfFile
    \/ DegreeDistribution
    \/ MeanSeparation
    \/ StdDevSeparation
    \/ MedianSeparation

Spec == Init /\ [][Next]_vars
\* ============================================================= properties
\* Reference notions, stated without the traversal or the parser.
MaxSample == 3      \* longest sample the median is tried on directly

AtStart == pc = "load" /\ edges = <<>>

\* the graphs the repository's tests build
PathEdges == <<<<0, 1>>, <<1, 2>>, <<2, 3>>>>
TriangleEdges == <<<<0, 1>>, <<1, 2>>, <<2, 0>>>>

Adjacent(E, a, b) == \E i \in 1..Len(E) : E[i] = <<a, b>> \/ E[i] = <<b, a>>

RECURSIVE Within(_, _, _, _)
\* the nodes joined to s by a walk of at most k edges
Within(E, n, s, k) ==
    IF k = 0 THEN {s}
    ELSE LET w == Within(E, n, s, k - 1)
         IN w \cup {t \in Nodes(n) : \E a \in w : Adjacent(E, a, t)}

ReachablePairs(E, n) ==
    {p \in Nodes(n) \X Nodes(n) : p[1] # p[2] /\ p[2] \in Within(E, n, p[1], n)}

\* the least number of edges of a walk from p[1] to p[2]
HopDistance(E, n, p) ==
    CHOOSE k \in 0..n : /\ p[2] \in Within(E, n, p[1], k)
                        /\ \A j \in 0..(k - 1) : p[2] \notin Within(E, n, p[1], j)

Count(ds, d) == Cardinality({i \in 1..Len(ds) : ds[i] = d})

Names(ps) == UNION {{ps[i][1], ps[i][2]} : i \in 1..Len(ps)}

Injections(k) == {f \in [1..k -> 1..k] : \A i, j \in 1..k : f[i] = f[j] => i = j}

C2_CountsFromTwoTokenLines ==
    /\ node_count = Cardinality(Names(pairs))
    /\ Len(edges) = Len(pairs)
    /\ pc = "loaded" =>
          \A a, b \in 1..Len(pairs) :
             LET f == [i \in 1..Len(pairs) |-> IF i = a THEN b ELSE IF i = b THEN a ELSE i]
                 g == load_edges([i \in 1..Len(pairs) |->
                          pairs[f[i]][1] \o <<" ">> \o pairs[f[i]][2]])
             IN g.node_count = node_count /\ Len(g.edges) = Len(edges)
    /\ AtStart =>
          /\ \A f \in Injections(3) :
                LET file == <<<<"1", " ", "2">>, <<"2", " ", "3">>, <<"3", " ", "4">>>>
                    g == load_edges([i \in 1..3 |-> file[f[i]]])
                IN g.node_count = 4 /\ Len(g.edges) = 3
          /\ LET g == load_edges(<<<<"5">>, <<"6", " ", "7", " ", "8">>>>)
             IN g.node_count = 0 /\ g.edges = <<>>

\* three two-token lines naming four nodes were read
C2_Witness ==
    /\ pc = "loaded"
    /\ Len(pairs) = 3 /\ node_count = 4 /\ Len(edges) = 3

\* C3 as stated: no edge of the loaded graph joins a node to itself.
C3_NoSelfLoop == \A i \in 1..Len(edges) : edges[i][1] # edges[i][2]

\* C3 amended: every two-token line adds one edge, and that edge is a
\* self-loop exactly when the line's two tokens are equal.
C3_SelfLoopIffEqualTokens ==
    /\ Len(edges) = Len(pairs)
    /\ \A i \in 1..Len(edges) :
          (edges[i][1] = edges[i][2]) <=> (pairs[i][1] = pairs[i][2])

\* a line of two equal tokens and a line of two different tokens were read
C3_Witness ==
    /\ \E i \in 1..Len(edges) : edges[i][1] = edges[i][2] /\ pairs[i][1] = pairs[i][2]
    /\ \E i \in 1..Len(edges) : edges[i][1] # edges[i][2]
\* the k-th smallest entry (1-based) of a sample, by counting
KthSmallest(ds, k) ==
    CHOOSE v \in Range(ds) :
        /\ Cardinality({i \in 1..Len(ds) : ds[i] <= v}) >= k
        /\ Cardinality({i \in 1..Len(ds) : ds[i] < v}) < k

Median(ds) ==
    LET n == Len(ds) IN
    IF n % 2 = 1
    THEN Rat(KthSmallest(ds, (n + 1) \div 2), 1)
    ELSE Rat(KthSmallest(ds, n \div 2) + KthSmallest(ds, n \div 2 + 1), 2)

Samples == UNION {[1..k -> 1..3] : k \in 1..MaxSample}

C5_EmptySampleGivesZero ==
    /\ (pc \in {"mean", "std", "done"} /\ ReachablePairs(edges, node_count) = {}) =>
          /\ mean_separation = Zero
          /\ pc \in {"std", "done"} => std_dev_separation = 0
          /\ pc = "done" => median_separation = Zero
    /\ (node_count = 0 /\ pc \in {"degree", "mean", "std", "done"}) =>
          degree_distribution = EmptyMap

\* all four results were computed for the graph without nodes
C5_Witness ==
    /\ pc = "done"
    /\ node_count = 0
    /\ mean_separation = Zero /\ std_dev_separation = 0 /\ median_separation = Zero
    /\ degree_distribution = EmptyMap

\* the number of edge entries with x as an endpoint
IncidentEntries(E, x) == Cardinality({i \in 1..Len(E) : x \in {E[i][1], E[i][2]}})

\* the number of edge entries joining a and b, in either direction
Multiplicity(E, a, b) == Cardinality({i \in 1..Len(E) : {E[i][1], E[i][2]} = {a, b}})

\* C6: the degree distribution maps d to the number of nodes with d
\* incident edge entries, an edge entered k times counting k at each end;
\* its counts sum to the node count; the triangle gives {2: 3}.
C6_DegreeCountsEdgeEntries ==
    /\ pc \in {"degree", "mean", "std", "done"} =>
          /\ DOMAIN degree_distribution =
                {IncidentEntries(edges, x) : x \in Nodes(node_count)}
          /\ \A d \in DOMAIN degree_distribution :
                degree_distribution[d] =
                   Cardinality({x \in Nodes(node_count) : IncidentEntries(edges, x) = d})
          /\ \A x \in Nodes(node_count) :
                Len(neighbors(edges, x)) =
                   SumSeq([y \in 1..node_count |-> Multiplicity(edges, x, y - 1)])
          /\ SumSeq([d \in 1..(Len(edges) + 1) |->
                        IF d - 1 \in DOMAIN degree_distribution
                        THEN degree_distribution[d - 1] ELSE 0]) = node_count
    /\ AtStart => calculate_degree_distribution(TriangleEdges, 3) = (2 :> 3)

\* the same two names were read on three lines: both nodes have degree 3
C6_Witness ==
    /\ pc = "degree"
    /\ node_count = 2
    /\ Multiplicity(edges, 0, 1) = 3
    /\ degree_distribution = (3 :> 2)

SampleSum(E, n) ==
    SumSeq([d \in 1..n |->
               d * Cardinality({p \in ReachablePairs(E, n) : HopDistance(E, n, p) = d})])

\* C7: for a non-empty sample the mean is sum / count of the sample, the
\* same multiset the other two functions collect; it is 1.0 when every
\* connected pair is adjacent, and always within 1 .. N-1.
C7_MeanIsSumOverCount ==
    /\ pc \in {"mean", "std", "done"} =>
          LET RP == ReachablePairs(edges, node_count) IN
          RP # {} =>
             /\ mean_separation = Rat(SampleSum(edges, node_count), Cardinality(RP))
             /\ (\A p \in RP : Adjacent(edges, p[1], p[2])) => mean_separation = <<1, 1>>
             /\ mean_separation[1] >= mean_separation[2]
             /\ mean_separation[1] <= (node_count - 1) * mean_separation[2]
    /\ pc \in {"std", "done"} =>
          /\ total_distance = SumSeq(distances)
          /\ pair_count = Len(distances)
    /\ AtStart => calculate_mean_separation(TriangleEdges, 3) = <<1, 1>>

\* the mean of the loaded triangle was computed: 6 / 6
C7_Witness ==
    /\ pc = "mean"
    /\ node_count = 3 /\ edges = TriangleEdges
    /\ total_distance = 6 /\ pair_count = 6
    /\ mean_separation = <<1, 1>>

\* C8: the standard deviation is the population one: in hundredths, the
\* root of (n * sum of squares - square of sum) / n^2; it is positive
\* exactly when the sample holds two different values.
C8_PopulationStdDev ==
    /\ (pc \in {"std", "done"} /\ distances # <<>>) =>
          LET n == Len(distances)
              s == SumSeq(distances)
              q == SumSeq([i \in 1..n |-> distances[i] * distances[i]])
              r == std_dev_separation
          IN /\ r * r * n * n <= 10000 * (n * q - s * s)
             /\ (r + 1) * (r + 1) * n * n > 10000 * (n * q - s * s)
             /\ r > 0 <=> (\E i, j \in 1..n : distances[i] # distances[j])
    /\ AtStart =>
          /\ calculate_standard_deviation_separation(PathEdges, 4) > 0
          /\ calculate_standard_deviation_separation(TriangleEdges, 3) = 0

\* the standard deviation of the loaded 4-node path was computed: 0.74
C8_Witness ==
    /\ pc = "std"
    /\ node_count = 4 /\ edges = PathEdges
    /\ std_dev_separation = 74

\* the names of the pairs read, in reading order (first token first)
Flat(ps) == [k \in 1..(2 * Len(ps)) |-> ps[(k + 1) \div 2][2 - (k % 2)]]

\* how many different names are read before the first occurrence of x
Rank(ps, x) ==
    LET fl == Flat(ps)
        first == CHOOSE k \in 1..Len(fl) : fl[k] = x /\ \A j \in 1..(k - 1) : fl[j] # x
    IN Cardinality({fl[j] : j \in 1..(first - 1)})

C9_MapInvariant ==
    pc = "load" =>
       /\ DOMAIN node_map = Names(pairs)
       /\ \A x, y \in DOMAIN node_map : node_map[x] = node_map[y] => x = y
       /\ {node_map[x] : x \in DOMAIN node_map} = Nodes(node_count)
       /\ \A x \in DOMAIN node_map : node_map[x] = Rank(pairs, x)

C9_IndexStable ==
    (pc = "load" /\ pc' = "load") =>
       \A x \in DOMAIN node_map :
          x \in DOMAIN node_map' /\ node_map'[x] = node_map[x]

\* C9: while load_edges reads, the name-to-index map is injective onto
\* 0..N-1, a name gets the next free index at its first appearance (first
\* token before second), and no later line changes an assigned index.
C9_StableDenseIndices == [](C9_MapInvariant) /\ [][C9_IndexStable]_vars

\* three lines were read; "11" came first and has index 0, "1" has index 1
C9_Witness ==
    /\ pc = "load"
    /\ Len(pairs) = 3 /\ node_count = 3
    /\ {<<"1">>, <<"1", "1">>} \subseteq DOMAIN node_map
    /\ node_map[<<"1", "1">>] = 0
    /\ node_map[<<"1">>] = 1

====
